---- MODULE Spec2Model ----
(***************************************************************************)
(* Model of the dieopt die-per-wafer counter (src/backup.py) and of its    *)
(* keyword API (src/dieopt/api.py).                                        *)
(*                                                                         *)
(* Numbers.  The program works on floats.  The model draws every           *)
(* millimetre input from the integers and every offset from the multiples  *)
(* of 0.5 mm, and stores every length DOUBLED (in half-millimetres), so    *)
(* that 0.5*width, 0.5*pitch, the centres and the corners are integers.    *)
(* On these inputs every float operation of the program is exact except    *)
(* hypot and the factor (1 + tol); both are modelled exactly:              *)
(*   - a radius is the pair (a, D) standing for  a - sqrt(D)  half-mm;     *)
(*   - tol = 1/TolInv, and a comparison with the factor (1 + tol) is the   *)
(*     sign of a polynomial in TolInv with small integer coefficients.     *)
(***************************************************************************)
EXTENDS Integers, Sequences, FiniteSets, TLC

\* ---------------------------------------------------------------- bounds
MaxDiameter == 9
MaxEdge == 3
MaxWidth == 2
MaxHeight == 3
MaxScribe == 1
BigOff == 6
Extra == 4

\* tol = 1e-9 = 1 / TolInv
TolInv == 1000000000

Diameters == 1..MaxDiameter
EdgeExclusions == 0..MaxEdge
Widths == 0..MaxWidth
Heights == 0..MaxHeight
Scribes == 0..MaxScribe
\* offsets in half-millimetres: 0, -0.5 mm and one offset of several pitches
Offsets == {-1, 0, BigOff}

\* None as the value of an unset variable, of a field without value and of
\* "no exception"
None == "None"

\* an optional keyword argument: Missing is Python's None, Given(v) a value
Missing == << >>
Given(v) == <<v>>

Wafer(d, e) == [diameter |-> d, edge_exclusion |-> e]
Die(w, h, s) == [width |-> w, height |-> h, scribe |-> s]

\* ------------------------------------------------------- integer helpers
Sgn(x) == IF x > 0 THEN 1 ELSE IF x < 0 THEN -1 ELSE 0

Max2(a, b) == IF a >= b THEN a ELSE b

\* math.ceil(a / b) for b > 0
CeilDiv(a, b) == -((-a) \div b)

\* sign of c2*TolInv^2 + c1*TolInv + c0; the coefficients are far below
\* TolInv in absolute value, so the sign is that of the leading nonzero one
PolySign(c2, c1, c0) ==
  IF c2 # 0 THEN Sgn(c2) ELSE IF c1 # 0 THEN Sgn(c1) ELSE Sgn(c0)

\* ------------------------------------------------------ geometry helpers
\* 2 * _usable_radius(w)
usable_radius(w) == w.diameter - 2 * w.edge_exclusion

\* 2 * _corners_local(w_die, h_die), in the order of the source
corners_local(w_die, h_die) ==
  << <<-w_die, -h_die>>, <<w_die, -h_die>>, <<w_die, h_die>>, <<-w_die, h_die>> >>

\* _within_circle for one point p (half-mm) and the radius R = (a - sqrt(D))/2:
\*   p.p <= (R*R) * (1 + tol)
\* with S = p.p, M = a^2 + D, K = M - S this is
\*   2*a*(TolInv+1)*sqrt(D) <= K*TolInv + M
within_circle(p, a, D) ==
  LET S == p[1] * p[1] + p[2] * p[2]
      M == a * a + D
      K == M - S
      Q == 4 * a * a * D
      lhs == IF D = 0 THEN 0 ELSE Sgn(a)
      rhs == PolySign(0, K, M)
      sq == PolySign(K * K - Q, 2 * K * M - 2 * Q, M * M - Q)
  IN  IF lhs <= 0 /\ rhs >= 0 THEN TRUE
      ELSE IF lhs >= 0 /\ rhs <= 0 THEN FALSE
      ELSE IF lhs > 0 THEN sq >= 0
      ELSE sq <= 0

\* np.arange(-n, n + 1)
arange(n) == IF n < 0 THEN << >> ELSE [k \in 1..(2 * n + 1) |-> k - 1 - n]

\* _grid_bounds: R2 = 2R; the caller has checked that both pitches are nonzero
grid_bounds(R2, pitch_x, pitch_y) ==
  LET max_half == R2 + 2 * Max2(pitch_x, pitch_y)
      ix == CeilDiv(max_half, 2 * pitch_x)
      iy == CeilDiv(max_half, 2 * pitch_y)
  IN  [ix |-> ix, iy |-> iy]

\* the centres of np.meshgrid(grid_x, grid_y, indexing='xy') ravelled:
\* outer loop over the y indices, inner loop over the x indices
meshgrid(ax, ay, px, py, x_off, y_off) ==
  LET nx == Len(ax)
      ny == Len(ay)
  IN  [k \in 1..(nx * ny) |->
         << 2 * ax[((k - 1) % nx) + 1] * px + x_off,
            2 * ay[((k - 1) \div nx) + 1] * py + y_off >>]

\* the coarse prune of one centre: _within_circle(centre, R - half_diag)
coarse_ok(c, R2, die) ==
  within_circle(c, R2, die.width * die.width + die.height * die.height)

\* the exact check of one centre: all four corners within R
corners_ok(c, R2, die) ==
  LET corners0 == corners_local(die.width, die.height)
  IN  \A n \in 1..4 :
        within_circle(<<c[1] + corners0[n][1], c[2] + corners0[n][2]>>, R2, 0)

PlacementResult(dpw, offset, positions) ==
  [err |-> None, dpw |-> dpw, angle_deg |-> 0, offset |-> offset,
   positions |-> positions]

Raised(e) ==
  [err |-> e, dpw |-> 0, angle_deg |-> 0, offset |-> <<0, 0>>, positions |-> << >>]

\* the centres kept by the coarse prune (line 70), in enumeration order
coarse_centres(wafer, die, x_off, y_off) ==
  LET R2 == usable_radius(wafer)
      px == die.width + die.scribe
      py == die.height + die.scribe
      b == grid_bounds(R2, px, py)
      centres == meshgrid(arange(b.ix), arange(b.iy), px, py, x_off, y_off)
  IN  SelectSeq(centres, LAMBDA c : coarse_ok(c, R2, die))

\* the coarse survivors returned without the corner test
exact_centres_skipped(centres, R2, die) == centres

\* the mask of line 77 applied to the coarse survivors
exact_centres(centres, R2, die) ==
  SelectSeq(centres, LAMBDA c : corners_ok(c, R2, die))

\* _count_with_offset_no_rotation; x_off, y_off in half-mm
count_with_offset_no_rotation(wafer, die, x_off, y_off) ==
  LET R2 == usable_radius(wafer)
      px == die.width + die.scribe
      py == die.height + die.scribe
  IN  IF px = 0 \/ py = 0 THEN Raised("ZeroDivisionError")
      ELSE LET centres == coarse_centres(wafer, die, x_off, y_off)
           IN  IF Len(centres) = 0
               THEN PlacementResult(0, <<x_off, y_off>>, << >>)
               ELSE LET good == exact_centres(centres, R2, die)
                    IN  PlacementResult(Len(good), <<x_off, y_off>>, good)

\* ---------------------------------------------------- three fixed offsets
\* max(rs, key=lambda r: r.dpw) as an index into rs: Python's max keeps the
\* first maximal element
RECURSIVE max_by_dpw_from(_, _, _)
max_by_dpw_from(rs, k, besti) ==
  IF k > Len(rs) THEN besti
  ELSE max_by_dpw_from(rs, k + 1, IF rs[k].dpw > rs[besti].dpw THEN k ELSE besti)

\* a max that keeps the last maximal element
max_by_dpw_last(rs) ==
  CHOOSE b \in 1..Len(rs) :
    /\ \A k \in 1..Len(rs) : rs[k].dpw <= rs[b].dpw
    /\ \A k \in (b + 1)..Len(rs) : rs[k].dpw < rs[b].dpw

max_by_dpw(rs) == max_by_dpw_from(rs, 2, 1)

\* the comparison of lines 111-114 made strict
choose_iter2_strict(r2x, r2y) ==
  IF r2x.dpw > r2y.dpw THEN [r |-> r2x, note |-> "x"] ELSE [r |-> r2y, note |-> "y"]

\* lines 111-114: the half-pitch axis of iter2
choose_iter2(r2x, r2y) ==
  IF r2x.dpw >= r2y.dpw THEN [r |-> r2x, note |-> "x"] ELSE [r |-> r2y, note |-> "y"]

SummaryRaised(e) ==
  [err |-> e, best |-> None, best_iter |-> 0, per_iter |-> None,
   note_iter2 |-> None, r2x |-> None, r2y |-> None]

\* lines 111-122 of optimise_three_fixed_offsets, from the four evaluations;
\* best_iter is the position in [r1, r2, r3] of the object returned as best;
\* r2x and r2y are the two locals of iter2.  The first evaluation that raises
\* ends the call (all four raise together: the pitches are the same).
ThreeRunSummary(r1, r2x, r2y, r3) ==
  LET c2 == choose_iter2(r2x, r2y)
      rs == <<r1, c2.r, r3>>
      b == max_by_dpw(rs)
  IN  IF r1.err # None THEN SummaryRaised(r1.err)
      ELSE [err |-> None, best |-> rs[b], best_iter |-> b,
            per_iter |-> [iter1 |-> r1, iter2 |-> c2.r, iter3 |-> r3],
            note_iter2 |-> c2.note, r2x |-> r2x, r2y |-> r2y]

\* optimise_three_fixed_offsets; 0.5 * px mm is px half-mm
optimise_three_fixed_offsets(wafer, die) ==
  LET px == die.width + die.scribe
      py == die.height + die.scribe
  IN  ThreeRunSummary(count_with_offset_no_rotation(wafer, die, 0, 0),
                      count_with_offset_no_rotation(wafer, die, px, 0),
                      count_with_offset_no_rotation(wafer, die, 0, py),
                      count_with_offset_no_rotation(wafer, die, px, py))

\* -------------------------------------------------------------------- API
Modes == {"best", "iter1", "iter2", "iter3", "all"}

\* _coerce_wafer
coerce_wafer(w, wafer_diameter, edge_exclusion) ==
  IF w # Missing THEN [err |-> None, val |-> w[1]]
  ELSE IF wafer_diameter = Missing THEN [err |-> "DieOptError", val |-> None]
  ELSE [err |-> None,
        val |-> Wafer(wafer_diameter[1],
                      IF edge_exclusion = Missing THEN 0 ELSE edge_exclusion[1])]

\* a coercion that asks for the width only
coerce_die_width_only(d, width, height, scribe) ==
  IF d # Missing THEN [err |-> None, val |-> d[1]]
  ELSE IF width = Missing THEN [err |-> "DieOptError", val |-> None]
  ELSE [err |-> None,
        val |-> Die(width[1], IF height = Missing THEN 0 ELSE height[1],
                    IF scribe = Missing THEN 0 ELSE scribe[1])]

\* _coerce_die
coerce_die(d, width, height, scribe) ==
  IF d # Missing THEN [err |-> None, val |-> d[1]]
  ELSE IF width = Missing \/ height = Missing
    THEN [err |-> "DieOptError", val |-> None]
  ELSE [err |-> None,
        val |-> Die(width[1], height[1],
                    IF scribe = Missing THEN 0 ELSE scribe[1])]

\* the buffer of an (N,2) array, row after row
RECURSIVE ravel(_)
ravel(arr) == IF arr = << >> THEN << >> ELSE <<arr[1][1], arr[1][2]>> \o ravel(Tail(arr))

\* a conversion that loses the last row
positions_to_tuples_short(arr) ==
  IF arr = << >> THEN << >> ELSE SubSeq(arr, 1, Len(arr) - 1)

\* _positions_to_tuples: np.asarray(arr).reshape(-1, 2) read back as pairs
positions_to_tuples(arr) ==
  LET flat == ravel(arr)
  IN  [k \in 1..(Len(flat) \div 2) |-> <<flat[2 * k - 1], flat[2 * k]>>]

\* _to_coords: the coordinate list and the scatter call it makes on ax
to_coords(r, draw) ==
  LET pts == positions_to_tuples(r.positions)
  IN  [pts |-> pts,
       drawn |-> IF draw /\ pts # << >> THEN <<"scatter">> ELSE << >>]

ApiRaised(e, w, d, summary, drawn) ==
  [err |-> e, w |-> w, d |-> d, summary |-> summary, drawn |-> drawn,
   coords |-> None, ret |-> None]

\* what dieopt returns: out, or (out, summary)
api_return(coords, summary, return_summary) ==
  IF return_summary THEN <<coords, summary>> ELSE coords

\* lines 80-102 of dieopt, once w, d and summary are computed; drawn is what
\* the call did to ax
dieopt_present(a, w, d, summary) ==
  IF summary.err # None THEN ApiRaised(summary.err, w, d, summary, << >>)
  ELSE IF a.draw /\ a.ax = None THEN ApiRaised("DieOptError", w, d, summary, << >>)
  ELSE LET d0 == IF a.draw THEN <<"wafer">> ELSE << >>
       IN  IF a.mode \in {"best", "iter1", "iter2", "iter3"}
           THEN LET one == to_coords(IF a.mode = "best" THEN summary.best
                                     ELSE summary.per_iter[a.mode], a.draw)
                IN  [err |-> None, w |-> w, d |-> d, summary |-> summary,
                     drawn |-> d0 \o one.drawn, coords |-> one.pts,
                     ret |-> api_return(one.pts, summary, a.return_summary)]
           ELSE IF a.mode = "all"
           THEN LET i1 == to_coords(summary.per_iter.iter1, a.draw)
                    i2 == to_coords(summary.per_iter.iter2, a.draw)
                    i3 == to_coords(summary.per_iter.iter3, a.draw)
                    m == [iter1 |-> i1.pts, iter2 |-> i2.pts, iter3 |-> i3.pts]
                IN  [err |-> None, w |-> w, d |-> d, summary |-> summary,
                     drawn |-> d0 \o i1.drawn \o i2.drawn \o i3.drawn,
                     coords |-> m,
                     ret |-> api_return(m, summary, a.return_summary)]
           ELSE ApiRaised("DieOptError", w, d, summary, d0)

\* lines 78-102 of dieopt for the coerced wafer w and die d
dieopt_coerced(a, w, d) ==
  dieopt_present(a, w, d, optimise_three_fixed_offsets(w, d))

\* dieopt(**a); w, d and summary are its locals
dieopt(a) ==
  LET cw == coerce_wafer(a.wafer, a.wafer_diameter, a.edge_exclusion)
      cd == coerce_die(a.die, a.width, a.height, a.scribe)
  IN  IF cw.err # None THEN ApiRaised(cw.err, None, None, None, << >>)
      ELSE IF cd.err # None THEN ApiRaised(cd.err, cw.val, None, None, << >>)
      ELSE dieopt_coerced(a, cw.val, cd.val)

\* ------------------------------------------------------------------ state
\* pc      the call in progress, then its completion
\* wafer, die, off   the arguments of the core call (off in half-mm)
\* res     the PlacementResult of the last evaluation
\* coarse  the centres that survived the coarse prune of the last evaluation
\* window  the index bounds (ix, iy) of the last evaluation
\* prev    edge exclusion and dpw of the evaluation before the last one
\* summary the ThreeRunSummary of optimise_three_fixed_offsets
\* args    the keyword arguments of dieopt
\* out     the outcome of dieopt
VARIABLES pc, wafer, die, off, res, coarse, window, prev, summary, args, out

vars == <<pc, wafer, die, off, res, coarse, window, prev, summary, args, out>>

Wafers == {Wafer(d, e) : d \in Diameters, e \in EdgeExclusions}
Dies == {Die(w, h, s) : w \in Widths, h \in Heights, s \in Scribes}

\* the keyword arguments tried on the API
Optional(S) == {Missing} \cup {Given(v) : v \in S}
ApiWafers == {Wafer(4, 0)}
ApiDies == {Die(1, 1, 0)}
ApiArgs ==
  [wafer : Optional(ApiWafers), die : Optional(ApiDies),
   wafer_diameter : Optional({4}), edge_exclusion : Optional({1}),
   width : Optional({1}), height : Optional({2}), scribe : Optional({1}),
   mode : Modes \cup {"bogus"}, draw : BOOLEAN, ax : {None, "ax"},
   return_summary : BOOLEAN]

InitEvaluate ==
  /\ pc = "evaluate"
  /\ wafer \in Wafers
  /\ die \in Dies
  /\ off \in Offsets \X Offsets
  /\ args = None

InitOptimise ==
  /\ pc = "optimise"
  /\ wafer \in Wafers
  /\ die \in Dies
  /\ off = None
  /\ args = None

InitDieOpt ==
  /\ pc = "dieopt"
  /\ wafer = None
  /\ die = None
  /\ off = None
  /\ args \in ApiArgs

Init ==
  /\ InitEvaluate \/ InitOptimise \/ InitDieOpt
  /\ res = None
  /\ coarse = None
  /\ window = None
  /\ prev = None
  /\ summary = None
  /\ out = None

\* what one evaluation leaves behind
Evaluated(w) ==
  /\ res' = count_with_offset_no_rotation(w, die, off[1], off[2])
  /\ IF res'.err # None
     THEN coarse' = << >> /\ window' = None
     ELSE /\ coarse' = coarse_centres(w, die, off[1], off[2])
          /\ window' = grid_bounds(usable_radius(w), die.width + die.scribe,
                                   die.height + die.scribe)

\* a call of _count_with_offset_no_rotation(wafer, die, x_off, y_off)
Evaluate ==
  /\ pc = "evaluate"
  /\ Evaluated(wafer)
  /\ pc' = "evaluated"
  /\ UNCHANGED <<wafer, die, off, prev, summary, args, out>>

\* a further call with the same diameter, die and offset and a larger
\* edge exclusion
EvaluateEdge ==
  /\ pc \in {"evaluated", "reevaluated"}
  /\ res.err = None
  /\ \E e \in EdgeExclusions :
       /\ e > wafer.edge_exclusion
       /\ wafer' = Wafer(wafer.diameter, e)
  /\ prev' = [edge_exclusion |-> wafer.edge_exclusion, dpw |-> res.dpw]
  /\ Evaluated(wafer')
  /\ pc' = "reevaluated"
  /\ UNCHANGED <<die, off, summary, args, out>>

\* a call of optimise_three_fixed_offsets(wafer, die)
Optimise ==
  /\ pc = "optimise"
  /\ summary' = optimise_three_fixed_offsets(wafer, die)
  /\ pc' = "optimised"
  /\ UNCHANGED <<wafer, die, off, res, coarse, window, prev, args, out>>

\* a call of dieopt(**args)
DieOpt ==
  /\ pc = "dieopt"
  /\ out' = dieopt(args)
  /\ pc' = "returned"
  /\ UNCHANGED <<wafer, die, off, res, coarse, window, prev, summary, args>>

Next == Evaluate \/ EvaluateEdge \/ Optimise \/ DieOpt

Spec == Init /\ [][Next]_vars

\* ================================================================ claims
Evaluations == {"evaluated", "reevaluated"}

EvalOk == pc \in Evaluations /\ res.err = None

OptOk == pc = "optimised" /\ summary.err = None

ApiOk == pc = "returned" /\ out.err = None

Iters == <<"iter1", "iter2", "iter3">>

Abs(x) == IF x < 0 THEN -x ELSE x

\* the inputs of the data model: positive usable radius, positive die sides
ProperDie == die.width > 0 /\ die.height > 0

ProperInput == usable_radius(wafer) > 0 /\ ProperDie

\* C1: best is the first of iter1, iter2, iter3 whose dpw is the maximum of the
\* three dpw values; on a tie the earlier iteration is returned
BestIsFirstMax ==
  OptOk =>
    LET b == summary.best_iter
    IN  /\ b \in 1..3
        /\ summary.best = summary.per_iter[Iters[b]]
        /\ \A k \in 1..3 : summary.per_iter[Iters[k]].dpw <= summary.best.dpw
        /\ \A k \in 1..(b - 1) : summary.per_iter[Iters[k]].dpw < summary.best.dpw

\* C1 witness: iter2 and iter3 tie at a positive maximum above iter1, and
\* iter2 is returned
BestTieWitness ==
  /\ OptOk
  /\ ProperInput
  /\ summary.per_iter.iter2.dpw > summary.per_iter.iter1.dpw
  /\ summary.per_iter.iter2.dpw = summary.per_iter.iter3.dpw
  /\ summary.per_iter.iter2.positions # summary.per_iter.iter3.positions
  /\ summary.best_iter = 2
  /\ summary.best.offset = summary.per_iter.iter2.offset

\* C2: iter2 is the half-pitch-in-x evaluation whenever its dpw is at least
\* that of the half-pitch-in-y evaluation (ties included), and the y
\* evaluation only when the y count is strictly greater
Iter2PrefersX ==
  OptOk =>
    LET px == die.width + die.scribe
        py == die.height + die.scribe
    IN  /\ summary.r2x.offset = <<px, 0>>
        /\ summary.r2y.offset = <<0, py>>
        /\ IF summary.r2x.dpw >= summary.r2y.dpw
           THEN /\ summary.note_iter2 = "x"
                /\ summary.per_iter.iter2 = summary.r2x
           ELSE /\ summary.note_iter2 = "y"
                /\ summary.per_iter.iter2 = summary.r2y

\* C2 witness: the two half-pitch evaluations tie at a positive count with
\* different positions, and x is kept
Iter2TieWitness ==
  /\ OptOk
  /\ ProperInput
  /\ summary.r2x.dpw = summary.r2y.dpw
  /\ summary.r2x.dpw > 0
  /\ summary.r2x.positions # summary.r2y.positions
  /\ summary.note_iter2 = "x"
  /\ summary.per_iter.iter2.offset = <<die.width + die.scribe, 0>>

\* C3: every reported centre has its four corners at squared distance at most
\* R^2 * (1 + tol) from the origin (lengths doubled: S <= R2^2 * (1 + tol),
\* which for integers S and R2^2 is S <= R2^2 + floor(R2^2 / TolInv))
CornersInside ==
  EvalOk =>
    LET R2 == usable_radius(wafer)
        lim == R2 * R2 + ((R2 * R2) \div TolInv)
    IN  \A k \in 1..Len(res.positions) :
          \A sx \in {-1, 1} : \A sy \in {-1, 1} :
            LET x == res.positions[k][1] + sx * die.width
                y == res.positions[k][2] + sy * die.height
            IN  x * x + y * y <= lim

\* C3 witness: several dies are reported on a shifted lattice
CornersInsideWitness ==
  /\ EvalOk
  /\ ProperInput
  /\ off # <<0, 0>>
  /\ res.dpw > 1

\* C4 (as claimed, for dies of positive sides): a usable radius <= 0 gives
\* dpw = 0 and no positions, for every offset and in all three iterations
NonPositiveRadiusCountsZero ==
  /\ (EvalOk /\ ProperDie /\ usable_radius(wafer) <= 0) =>
        (res.dpw = 0 /\ res.positions = << >>)
  /\ (OptOk /\ ProperDie /\ usable_radius(wafer) <= 0) =>
        \A k \in 1..3 : summary.per_iter[Iters[k]].dpw = 0

\* C5 (as claimed, for dies of positive sides): with diameter, die and offset
\* fixed, a larger edge exclusion never gives a larger dpw
EdgeExclusionMonotone ==
  (pc = "reevaluated" /\ res.err = None /\ ProperDie) =>
    (prev.edge_exclusion <= wafer.edge_exclusion => res.dpw <= prev.dpw)

\* C6 (as claimed): a zero-area die raises nothing and yields dpw = 0 with no
\* positions, in the counter and in the optimiser
ZeroAreaDieCountsZero ==
  /\ (pc \in Evaluations /\ (die.width = 0 \/ die.height = 0)) =>
        (res.err = None /\ res.dpw = 0 /\ res.positions = << >>)
  /\ (pc = "optimised" /\ (die.width = 0 \/ die.height = 0)) =>
        /\ summary.err = None
        /\ \A k \in 1..3 : summary.per_iter[Iters[k]].dpw = 0

NoWafer == args.wafer = Missing

NoDie == args.die = Missing

\* C7 (as claimed): dieopt raises DieOptError before any placement whenever
\* the wafer is given by an incomplete scalar set (wafer_diameter,
\* edge_exclusion) or the die by an incomplete scalar set (width, height, scribe)
IncompleteScalarsRejected ==
  (/\ pc = "returned"
   /\ \/ NoWafer /\ (args.wafer_diameter = Missing \/ args.edge_exclusion = Missing)
      \/ NoDie /\ (args.width = Missing \/ args.height = Missing
                     \/ args.scribe = Missing))
  => (out.err = "DieOptError" /\ out.summary = None)

\* C7 (amended): dieopt raises DieOptError before any placement whenever no
\* Wafer and no wafer_diameter is given, or no Die and not both width and
\* height are given; a missing edge_exclusion or scribe is no error and is
\* replaced by 0
RequiredScalarsRejected ==
  pc = "returned" =>
    /\ (\/ NoWafer /\ args.wafer_diameter = Missing
        \/ NoDie /\ (args.width = Missing \/ args.height = Missing))
         => (out.err = "DieOptError" /\ out.summary = None)
    /\ (NoWafer /\ args.wafer_diameter # Missing)
         => /\ out.w.diameter = args.wafer_diameter[1]
            /\ out.w.edge_exclusion =
                 IF args.edge_exclusion = Missing THEN 0 ELSE args.edge_exclusion[1]
    /\ (/\ ~NoWafer \/ args.wafer_diameter # Missing
        /\ NoDie /\ args.width # Missing /\ args.height # Missing)
         => /\ out.d.width = args.width[1]
            /\ out.d.height = args.height[1]
            /\ out.d.scribe = IF args.scribe = Missing THEN 0 ELSE args.scribe[1]

\* C7 witness: a die given by width alone is rejected although the wafer is
\* complete
RequiredScalarsWitness ==
  /\ pc = "returned"
  /\ ~NoWafer
  /\ NoDie
  /\ args.width # Missing
  /\ args.height = Missing
  /\ out.err = "DieOptError"
  /\ out.summary = None

\* C8: dpw is the number of reported centres on the short-circuit path and on
\* the full path; the list dieopt returns for "best" or "iterN" has the length
\* of the selected result's dpw, and "all" returns exactly iter1, iter2, iter3,
\* each of its iteration's dpw length
DpwIsLength ==
  /\ EvalOk =>
       /\ res.dpw = Len(res.positions)
       /\ Len(coarse) = 0 => res.dpw = 0
  /\ ApiOk =>
       IF args.mode = "all"
       THEN /\ DOMAIN out.coords = {"iter1", "iter2", "iter3"}
            /\ \A k \in DOMAIN out.coords :
                 Len(out.coords[k]) = out.summary.per_iter[k].dpw
       ELSE Len(out.coords) =
              IF args.mode = "best" THEN out.summary.best.dpw
              ELSE out.summary.per_iter[args.mode].dpw

\* C8 witness: mode "all" returns three non-empty lists of different lengths
DpwIsLengthWitness ==
  /\ ApiOk
  /\ args.mode = "all"
  /\ Len(out.coords.iter1) > 0
  /\ Len(out.coords.iter2) > 0
  /\ Len(out.coords.iter1) # Len(out.coords.iter3)

\* C9 (as claimed, for a positive usable radius and a die of positive sides):
\* every lattice index whose centre passes the coarse prune and the
\* four-corner check lies in the window [-ix, ix] x [-iy, iy]
\* (indices searched up to Extra beyond the window)
WindowCoversLattice ==
  (EvalOk /\ ProperInput) =>
    LET R2 == usable_radius(wafer)
        px == die.width + die.scribe
        py == die.height + die.scribe
        nx == Abs(window.ix) + Extra
        ny == Abs(window.iy) + Extra
    IN  \A i \in (-nx)..nx : \A j \in (-ny)..ny :
          LET c == <<2 * i * px + off[1], 2 * j * py + off[2]>>
          IN  (coarse_ok(c, R2, die) /\ corners_ok(c, R2, die))
                => (Abs(i) <= window.ix /\ Abs(j) <= window.iy)

\* C10 (as claimed, for a positive usable radius and a die of positive
\* sides): every centre kept by the coarse prune passes the exact four-corner
\* check
CoarseImpliesExact ==
  (EvalOk /\ ProperInput) =>
    \A k \in 1..Len(coarse) : corners_ok(coarse[k], usable_radius(wafer), die)
====
